---- MODULE Spec2Model ----
(***************************************************************************)
(* Model of rouchu.py: the Modbus TCP request/response layer of the        *)
(* pneumatic gripper SDK.  Bytes are naturals in 0..255, byte strings are  *)
(* sequences of bytes.  A Python value that an operation returns is a      *)
(* record [kind, type, value, carries]: kind "return" with the Python type *)
(* ("int" or "bool", a bool carrying 1 or 0 as in Python) or kind "raise"  *)
(* with the exception class, and the set of integers the exception object  *)
(* carries.                                                                *)
(***************************************************************************)
EXTENDS Integers, Sequences, FiniteSets, TLC

\* ------------------------------------------------------------ constants
TRANSACTION_ID == 0
PROTOCOL_ID == 0
UNIT_ID == 1
LENGTH == 6

\* 0xFFFF and 0x7FFF of unsigned_to_signed_16bit, 0x10000 = U16Max + 1
U16Max == 65535
I16Max == 32767

\* ------------------------------------------------------------ bounds
\* set_pressure is called with pressure_value in -MaxRequested..MaxRequested
MaxRequested == 510
\* exception codes a device answers with: 1..MaxExceptionCode
MaxExceptionCode == 2

\* ------------------------------------------------------------ bytes
\* x & 0xFF and (x >> 8) & 0xFF on Python integers (negative ones included:
\* >> is an arithmetic shift, & 0xFF the residue modulo 256)
LowByte(x) == x % 256
HighByte(x) == (x \div 256) % 256

\* struct.unpack(">H", b): the big-endian 16-bit value of two bytes
Unpack16(hi, lo) == hi * 256 + lo

Style == {"Positive", "Negative"}
OnOff == {"ON", "OFF"}

\* ------------------------------------------------------------ results
Return(t, v) == [kind |-> "return", type |-> t, value |-> v, carries |-> {}]
Raise(e) == [kind |-> "raise", type |-> e, value |-> 0, carries |-> {}]

\* ------------------------------------------------------------ rouchu.py
unsigned_to_signed_16bit_swapped(value) ==
    IF value > U16Max
    THEN Raise("ValueError")
    ELSE Return("int", IF value > I16Max THEN value ELSE value - (U16Max + 1))

unsigned_to_signed_16bit(value) ==
    IF value > U16Max
    THEN Raise("ValueError")
    ELSE Return("int", IF value > I16Max THEN value - (U16Max + 1) ELSE value)

build_mbap_header_little_endian(transaction_id, protocol_id, length, unit_id) ==
    << LowByte(transaction_id), HighByte(transaction_id),
       LowByte(protocol_id), HighByte(protocol_id),
       LowByte(length), HighByte(length),
       unit_id >>

build_mbap_header(transaction_id, protocol_id, length, unit_id) ==
    << HighByte(transaction_id), LowByte(transaction_id),
       HighByte(protocol_id), LowByte(protocol_id),
       HighByte(length), LowByte(length),
       unit_id >>

\* The five PDU bytes every operation assembles: function code, address and
\* a 16-bit field, both big-endian.
request_pdu(function_code, address, field) ==
    << function_code, HighByte(address), LowByte(address),
       HighByte(field), LowByte(field) >>

get_pressure_request ==
    build_mbap_header(TRANSACTION_ID, PROTOCOL_ID, LENGTH, UNIT_ID)
        \o request_pdu(3, 770, 2)

\* line 95: the legal range [10,300] or [-80,-10]
clamp_pressure_unclamped(pressure_value, style) == pressure_value

clamp_pressure(pressure_value, style) ==
    LET min(a, b) == IF a < b THEN a ELSE b
        max(a, b) == IF a > b THEN a ELSE b
    IN  IF style = "Positive"
        THEN max(10, min(300, pressure_value))
        ELSE max(-80, min(-10, pressure_value))

set_pressure_request(pressure_value, style) ==
    LET address == IF style = "Positive" THEN 774 ELSE 775
        clamped == clamp_pressure(pressure_value, style)
    IN  build_mbap_header(TRANSACTION_ID, PROTOCOL_ID, LENGTH, UNIT_ID)
            \o << 6, HighByte(address), LowByte(address),
                  HighByte(clamped), LowByte(clamped) >>

is_pressure_launched_request(style) ==
    LET address == IF style = "Positive" THEN 512 ELSE 513
    IN  build_mbap_header(TRANSACTION_ID, PROTOCOL_ID, LENGTH, UNIT_ID)
            \o request_pdu(2, address, 1)

launch_pressure_request(state, style) ==
    LET address == IF style = "Positive" THEN 256 ELSE 257
        value == IF state = "ON" THEN 65280 ELSE 0
    IN  build_mbap_header(TRANSACTION_ID, PROTOCOL_ID, LENGTH, UNIT_ID)
            \o request_pdu(5, address, value)

\* ------------------------------------------------------------ decoder
\* What ClientDecoder().decode(response_pdu) hands back (line 49-50), as far
\* as the operations look at it: the class of the message object and the
\* attributes they probe.  The decoder picks the class from the function
\* code of the RESPONSE; any error while decoding is logged and None is
\* returned.
Message(cls, registers, bits, value, exception_code) ==
    [cls |-> cls, registers |-> registers, bits |-> bits, value |-> value,
     exception_code |-> exception_code]

NoneMessage == Message("None", <<>>, <<>>, 0, 0)

\* unpack_bitstring: eight flags per data byte, least significant bit first
unpack_bitstring(data) ==
    [i \in 1..(8 * Len(data)) |->
        (data[((i - 1) \div 8) + 1] \div (2 ^ ((i - 1) % 8))) % 2 = 1]

\* Read(Holding|Input)RegistersResponse.decode.  Releases of the library
\* differ: the later ones reject a byte count that is odd, below 2 or not
\* the number of bytes that follow (strict); the earlier ones unpack one
\* register per two declared bytes and fail only when bytes are missing.
decode_registers(data, strict) ==
    LET byte_count == data[1]
        n == (byte_count + 1) \div 2
        regs == [i \in 1..n |-> Unpack16(data[2 * i], data[2 * i + 1])]
    IN  IF strict
        THEN IF byte_count < 2 \/ byte_count % 2 = 1 \/ byte_count # Len(data) - 1
             THEN NoneMessage
             ELSE Message("Registers", regs, <<>>, 0, 0)
        ELSE IF Len(data) < 2 * n + 1
             THEN NoneMessage
             ELSE Message("Registers", regs, <<>>, 0, 0)

decode(pdu, strict) ==
    IF Len(pdu) = 0 THEN NoneMessage
    ELSE LET function_code == pdu[1]
             data == Tail(pdu)
         IN  IF function_code > 128
             THEN IF Len(data) = 0 THEN NoneMessage
                  ELSE Message("Exception", <<>>, <<>>, 0, data[1])
             ELSE IF function_code \in {3, 4}
             THEN IF Len(data) = 0 THEN NoneMessage
                  ELSE decode_registers(data, strict)
             ELSE IF function_code \in {1, 2}
             THEN IF Len(data) = 0 THEN NoneMessage
                  ELSE Message("Bits", <<>>, unpack_bitstring(Tail(data)), 0, 0)
             ELSE IF function_code = 6
             THEN IF Len(data) # 4 THEN NoneMessage
                  ELSE Message("WriteRegister", <<>>, <<>>,
                               Unpack16(data[3], data[4]), 0)
             ELSE IF function_code = 5
             THEN IF Len(data) # 4 THEN NoneMessage
                  ELSE Message("WriteCoil", <<>>, <<>>,
                               IF Unpack16(data[3], data[4]) = 65280 THEN 1 ELSE 0, 0)
             ELSE NoneMessage

\* response[7:] then decode (lines 48-50)
parse_response(response, strict) ==
    decode(SubSeq(response, 8, Len(response)), strict)

\* ------------------------------------------------------------ results
\* What each operation does with the decoded message (lines 77-81, 112,
\* 136-139, 163).
get_pressure_result(message) ==
    IF message.cls = "Registers"
    THEN IF Len(message.registers) = 0
         THEN Raise("IndexError")
         ELSE unsigned_to_signed_16bit(message.registers[1])
    ELSE Raise("ValueError")

set_pressure_result_unsigned(message) ==
    IF message.cls = "WriteRegister"
    THEN Return("int", message.value)
    ELSE IF message.cls = "WriteCoil"
    THEN Return("bool", message.value)
    ELSE Raise("AttributeError")

set_pressure_result(message) ==
    IF message.cls = "WriteRegister"
    THEN unsigned_to_signed_16bit(message.value)
    ELSE IF message.cls = "WriteCoil"
    THEN Return("bool", message.value)
    ELSE Raise("AttributeError")

is_pressure_launched_result_any(message) ==
    IF message.cls = "Bits"
    THEN IF Len(message.bits) = 0
         THEN Raise("ValueError")
         ELSE Return("bool", IF message.bits[1] THEN 1 ELSE 0)
    ELSE Raise("ValueError")

is_pressure_launched_result(message) ==
    IF message.cls = "Bits"
    THEN IF Len(message.bits) = 0
         THEN Raise("IndexError")
         ELSE Return("bool", IF message.bits[1] THEN 1 ELSE 0)
    ELSE Raise("ValueError")

launch_pressure_result(message) ==
    IF message.cls = "WriteRegister"
    THEN Return("int", message.value)
    ELSE IF message.cls = "WriteCoil"
    THEN Return("bool", message.value)
    ELSE Raise("AttributeError")

\* ------------------------------------------------------------ state
Callers == {1, 2}

VARIABLES
    lib_strict,   \* which release of the decoding library is installed
    pc,           \* per caller: "idle", "sent" (blocked in recv) or "done"
                  \* (the operation has returned or raised)
    args,         \* per caller: the operation called and its arguments
    request,      \* per caller: the request bytes handed to socket.send
    log,          \* per caller: the transport calls of the current call
    wire,         \* requests on their way to the device, oldest first
    inbox,        \* the socket's receive buffer: response segments, oldest first
    response,     \* per caller: the bytes socket.recv returned
    got,          \* per caller: whose requests the received bytes answer
    result,       \* per caller: what the operation returned or raised
    overlapped,   \* per caller: another call was in flight during this one
    prev_launch   \* the preceding call and its result, when both that call
                  \* and the current one are launch_pressure

vars == << lib_strict, pc, args, request, log, wire, inbox, response, got,
           result, overlapped, prev_launch >>

NoArgs == [op |-> "none", style |-> "Positive", state |-> "ON", pressure_value |-> 0]
NoResult == [kind |-> "none", type |-> "none", value |-> 0, carries |-> {}]
NoLaunch == [args |-> NoArgs, result |-> NoResult]

GetArgs == [op |-> "get_pressure", style |-> "Positive", state |-> "ON",
            pressure_value |-> 0]
SetArgs(pressure_value, style) ==
    [op |-> "set_pressure", style |-> style, state |-> "ON",
     pressure_value |-> pressure_value]
IsArgs(style) ==
    [op |-> "is_pressure_launched", style |-> style, state |-> "ON",
     pressure_value |-> 0]
LaunchArgs(state, style) ==
    [op |-> "launch_pressure", style |-> style, state |-> state,
     pressure_value |-> 0]

\* The calls a caller makes, set_pressure with the values of `requested`.
Calls(requested) ==
    {GetArgs}
        \cup {SetArgs(v, s) : v \in requested, s \in Style}
        \cup {IsArgs(s) : s \in Style}
        \cup {LaunchArgs(t, s) : t \in OnOff, s \in Style}

\* The request an operation builds from its arguments.
RequestOf(a) ==
    CASE a.op = "get_pressure" -> get_pressure_request
      [] a.op = "set_pressure" -> set_pressure_request(a.pressure_value, a.style)
      [] a.op = "is_pressure_launched" -> is_pressure_launched_request(a.style)
      [] a.op = "launch_pressure" -> launch_pressure_request(a.state, a.style)

\* What an operation makes of the decoded message.
ResultOf(a, message) ==
    CASE a.op = "get_pressure" -> get_pressure_result(message)
      [] a.op = "set_pressure" -> set_pressure_result(message)
      [] a.op = "is_pressure_launched" -> is_pressure_launched_result(message)
      [] a.op = "launch_pressure" -> launch_pressure_result(message)

\* ------------------------------------------------------------ transport
RECURSIVE Concat(_)
Concat(segments) ==
    IF segments = <<>> THEN <<>>
    ELSE Head(segments).bytes \o Concat(Tail(segments))

\* client.socket.send(request), line 44: the operation up to the point where
\* it blocks in recv.  The request goes to the device.
Send(c, a) ==
    /\ pc[c] = "idle"
    /\ pc' = [pc EXCEPT ![c] = "sent"]
    /\ args' = [args EXCEPT ![c] = a]
    /\ request' = [request EXCEPT ![c] = RequestOf(a)]
    /\ log' = [log EXCEPT ![c] = << "send" >>]
    /\ wire' = Append(wire, [bytes |-> RequestOf(a), from |-> c])
    /\ UNCHANGED << lib_strict, inbox, response, got, result >>

\* A variant of Receive that sends the request again when the response does
\* not decode.
ReceiveRetrying(c) ==
    /\ pc[c] = "sent"
    /\ inbox # <<>>
    /\ LET bytes == Concat(inbox)
           message == parse_response(bytes, lib_strict)
       IN  /\ response' = [response EXCEPT ![c] = bytes]
           /\ got' = [got EXCEPT ![c] = {inbox[i].for : i \in 1..Len(inbox)}]
           /\ IF message.cls = "None"
              THEN /\ log' = [log EXCEPT ![c] = log[c] \o << "recv", "send" >>]
                   /\ wire' = Append(wire, [bytes |-> request[c], from |-> c])
                   /\ UNCHANGED << pc, result >>
              ELSE /\ log' = [log EXCEPT ![c] = Append(log[c], "recv")]
                   /\ result' = [result EXCEPT ![c] = ResultOf(args[c], message)]
                   /\ pc' = [pc EXCEPT ![c] = "done"]
                   /\ UNCHANGED wire
    /\ inbox' = <<>>
    /\ UNCHANGED << lib_strict, args, request >>

\* A variant of Receive that leaves the bytes it read in the buffer.
ReceivePeeking(c) ==
    /\ pc[c] = "sent"
    /\ inbox # <<>>
    /\ LET bytes == Concat(inbox)
           message == parse_response(bytes, lib_strict)
       IN  /\ response' = [response EXCEPT ![c] = bytes]
           /\ got' = [got EXCEPT ![c] = {inbox[i].for : i \in 1..Len(inbox)}]
           /\ result' = [result EXCEPT ![c] = ResultOf(args[c], message)]
    /\ log' = [log EXCEPT ![c] = Append(log[c], "recv")]
    /\ pc' = [pc EXCEPT ![c] = "done"]
    /\ UNCHANGED << lib_strict, args, request, wire, inbox >>

\* response = client.socket.recv(1024), lines 45-52, and the rest of the
\* operation: recv blocks until bytes are buffered and returns all of them
\* (the buffered bytes of this model never reach 1024); the PDU is decoded
\* and the operation returns or raises.
Receive(c) ==
    /\ pc[c] = "sent"
    /\ inbox # <<>>
    /\ LET bytes == Concat(inbox)
           message == parse_response(bytes, lib_strict)
       IN  /\ response' = [response EXCEPT ![c] = bytes]
           /\ got' = [got EXCEPT ![c] = {inbox[i].for : i \in 1..Len(inbox)}]
           /\ result' = [result EXCEPT ![c] = ResultOf(args[c], message)]
    /\ log' = [log EXCEPT ![c] = Append(log[c], "recv")]
    /\ pc' = [pc EXCEPT ![c] = "done"]
    /\ inbox' = <<>>
    /\ UNCHANGED << lib_strict, args, request, wire >>

\* The operation has returned or raised: its locals are gone and the caller
\* may call again.
Finish(c) ==
    /\ pc[c] = "done"
    /\ pc' = [pc EXCEPT ![c] = "idle"]
    /\ args' = [args EXCEPT ![c] = NoArgs]
    /\ request' = [request EXCEPT ![c] = <<>>]
    /\ log' = [log EXCEPT ![c] = <<>>]
    /\ response' = [response EXCEPT ![c] = <<>>]
    /\ got' = [got EXCEPT ![c] = {}]
    /\ result' = [result EXCEPT ![c] = NoResult]
    /\ UNCHANGED << lib_strict, wire, inbox >>

\* ------------------------------------------------------------ device
\* The device end of the connection: it takes the oldest request and puts
\* bytes into the caller's receive buffer.  A response frame repeats the
\* MBAP header of the request with the length of its own PDU.
ResponseFrame(pdu) ==
    build_mbap_header(TRANSACTION_ID, PROTOCOL_ID, Len(pdu) + 1, UNIT_ID) \o pdu

PduOf(frame) == SubSeq(frame, 8, Len(frame))

Prefixes(frame) == {SubSeq(frame, 1, k) : k \in 0..Len(frame)}

\* Raw register values a device reports: both ends of each half of the
\* 16-bit range, 0xFFCE (-50) and 100.
RegisterSamples == {0, 100, I16Max, I16Max + 1, 65486, U16Max}

RegisterPdus(values) ==
    {<< 3, 4, HighByte(v), LowByte(v), 0, 0 >> : v \in values}

\* A well-behaved device: registers for a read, one input bit for a discrete
\* read, the request itself for the two writes.
HonestPdus(pdu, values) ==
    CASE pdu[1] = 3 -> RegisterPdus(values)
      [] pdu[1] = 2 -> {<< 2, 1, b >> : b \in {0, 1}}
      [] OTHER -> {pdu}

\* Whatever may come back: well-formed responses of every function code the
\* operations use and of their read-coils / read-input-registers siblings,
\* an echo of the request, exception responses, a function code the decoder
\* does not know (0x41), empty bit and register payloads, a byte count below
\* the bytes that follow.
AnyPdus(pdu) ==
    RegisterPdus(RegisterSamples)
        \cup {<< 4, 4, HighByte(v), LowByte(v), 0, 0 >> : v \in RegisterSamples}
        \cup {<< f, 2, HighByte(v), LowByte(v), 0, 0 >> : f \in {3, 4}, v \in {100, 65486}}
        \cup {<< f, 0 >> : f \in {1, 2, 3}}
        \cup {<< f, 1, b >> : f \in {1, 2}, b \in {0, 1}}
        \cup {<< 2, 2, 1, 0 >>}
        \cup {<< 6, pdu[2], pdu[3], HighByte(v), LowByte(v) >> : v \in RegisterSamples}
        \cup {<< 5, pdu[2], pdu[3], h, 0 >> : h \in {0, 255}}
        \cup {pdu}
        \cup {<< 128 + f, e >> : f \in 1..6, e \in 1..MaxExceptionCode}
        \cup {<< 65, 0 >>}

\* ... and any part of it that a single recv returns.
AnySegments(pdu) == UNION {Prefixes(ResponseFrame(p)) : p \in AnyPdus(pdu)}

HonestSegments(pdu, values) == {ResponseFrame(p) : p \in HonestPdus(pdu, values)}

Deliver(bytes) ==
    /\ wire # <<>>
    /\ inbox' = Append(inbox, [bytes |-> bytes, for |-> Head(wire).from])
    /\ wire' = Tail(wire)
    /\ UNCHANGED << lib_strict, pc, args, request, log, response, got, result,
                    overlapped, prev_launch >>

\* ------------------------------------------------------------ specifications
Init ==
    /\ lib_strict \in BOOLEAN
    /\ pc = [c \in Callers |-> "idle"]
    /\ args = [c \in Callers |-> NoArgs]
    /\ request = [c \in Callers |-> <<>>]
    /\ log = [c \in Callers |-> <<>>]
    /\ wire = <<>>
    /\ inbox = <<>>
    /\ response = [c \in Callers |-> <<>>]
    /\ got = [c \in Callers |-> {}]
    /\ result = [c \in Callers |-> NoResult]
    /\ overlapped = [c \in Callers |-> FALSE]
    /\ prev_launch = NoLaunch

\* Values of pressure_value around and beyond both legal ranges.
RequestedSamples == {-200, -81, -80, -50, -30, -10, -9, 5, 9, 10, 100, 300, 301, 500}

\* One caller, any response.
Call(a) == Send(1, a) /\ UNCHANGED << overlapped, prev_launch >>

AnyResponse ==
    \E bytes \in AnySegments(PduOf(Head(wire).bytes)) : Deliver(bytes)

Complete == Receive(1) /\ UNCHANGED << overlapped, prev_launch >>

Again == Finish(1) /\ UNCHANGED << overlapped, prev_launch >>

Next ==
    \/ (pc[1] = "idle" /\ \E a \in Calls(RequestedSamples) : Call(a))
    \/ (wire # <<>> /\ AnyResponse)
    \/ Complete
    \/ Again

Spec == Init /\ [][Next]_vars

\* One caller, a well-behaved device, every pressure_value of the bound and
\* every 16-bit register value.
HonestCall(a) ==
    /\ Send(1, a)
    /\ prev_launch' = IF a.op = "launch_pressure" THEN prev_launch ELSE NoLaunch
    /\ UNCHANGED overlapped

HonestResponse ==
    \E bytes \in HonestSegments(PduOf(Head(wire).bytes), 0..U16Max) : Deliver(bytes)

HonestComplete == Receive(1) /\ UNCHANGED << overlapped, prev_launch >>

HonestAgain ==
    /\ Finish(1)
    /\ prev_launch' =
          IF args[1].op = "launch_pressure"
          THEN [args |-> args[1], result |-> result[1]]
          ELSE NoLaunch
    /\ UNCHANGED overlapped

NextHonest ==
    \/ (pc[1] = "idle" /\ \E a \in Calls((-MaxRequested)..MaxRequested) : HonestCall(a))
    \/ (wire # <<>> /\ HonestResponse)
    \/ HonestComplete
    \/ HonestAgain

SpecHonest == Init /\ [][NextHonest]_vars

\* Two callers on one transport, a well-behaved device.  A call is
\* overlapped when another one is between its send and its recv at any
\* moment of it.
SharedCalls ==
    {GetArgs, SetArgs(100, "Positive"), SetArgs(-30, "Negative"),
     IsArgs("Positive"), LaunchArgs("ON", "Positive"), LaunchArgs("OFF", "Negative")}

SharedCall(c, a) ==
    /\ Send(c, a)
    /\ overlapped' =
          [d \in Callers |->
              IF d = c THEN \E e \in Callers \ {c} : pc[e] = "sent"
              ELSE overlapped[d] \/ pc[d] = "sent"]
    /\ UNCHANGED prev_launch

SharedResponse ==
    \E bytes \in HonestSegments(PduOf(Head(wire).bytes), {100, 65486}) : Deliver(bytes)

SharedComplete(c) == Receive(c) /\ UNCHANGED << overlapped, prev_launch >>

SharedAgain(c) ==
    /\ Finish(c)
    /\ overlapped' = [overlapped EXCEPT ![c] = FALSE]
    /\ UNCHANGED prev_launch

NextShared ==
    \/ \E c \in Callers, a \in SharedCalls : SharedCall(c, a)
    \/ (wire # <<>> /\ SharedResponse)
    \/ \E c \in Callers : SharedComplete(c)
    \/ \E c \in Callers : SharedAgain(c)

SpecShared == Init /\ [][NextShared]_vars

\* ------------------------------------------------------------ claims
Active(c) == pc[c] # "idle"
Done(c) == pc[c] = "done"

\* The 16-bit field of a 12-byte request, and its reading as a signed value.
FieldOf(req) == req[11] * 256 + req[12]
Lower(a, b) == IF a < b THEN a ELSE b
Upper(a, b) == IF a > b THEN a ELSE b
LegalPressure(requested, style) ==
    IF style = "Positive"
    THEN Lower(300, Upper(10, requested))
    ELSE Lower(-10, Upper(-80, requested))
TwosComplement16(v) == IF v < 0 THEN v + 65536 ELSE v

\* C1: set_pressure clamps before it transmits: the value field of the
\* request is min(300, max(10, requested)) for Positive and the 16-bit two's
\* complement of min(-10, max(-80, requested)) for Negative, whatever integer
\* is requested; the request is sent in every case and the field is always
\* in the legal range.
C1_ClampedBeforeSend ==
    \A c \in Callers :
        (Active(c) /\ args[c].op = "set_pressure") =>
            /\ Len(request[c]) = 12
            /\ FieldOf(request[c]) =
                  TwosComplement16(LegalPressure(args[c].pressure_value, args[c].style))
            /\ args[c].style = "Positive" => FieldOf(request[c]) \in 10..300
            /\ args[c].style = "Negative" => FieldOf(request[c]) \in 65456..65526
            /\ (args[c].style = "Positive" /\ args[c].pressure_value = 500)
                  => FieldOf(request[c]) = 300
            /\ (args[c].style = "Positive" /\ args[c].pressure_value = -50)
                  => FieldOf(request[c]) = 10
            /\ (args[c].style = "Negative" /\ args[c].pressure_value = 5)
                  => FieldOf(request[c]) = 65526
            /\ (args[c].style = "Negative" /\ args[c].pressure_value = -200)
                  => FieldOf(request[c]) = 65456
            /\ (pc[c] = "sent" /\ inbox = <<>>) =>
                  \E i \in 1..Len(wire) : wire[i] = [bytes |-> request[c], from |-> c]

C1_Witness ==
    /\ pc[1] = "sent"
    /\ args[1] = SetArgs(-200, "Negative")
    /\ wire = << [bytes |-> << 0, 0, 0, 0, 0, 6, 1, 6, 3, 7, 255, 176 >>, from |-> 1] >>

\* C2: every request sent is 12 bytes: 00 00 00 00 00 06 01, then function
\* code, big-endian address and big-endian field as the operation's row of
\* the table says.
ExpectedPdu(a) ==
    CASE a.op = "get_pressure" -> << 3, 3, 2, 0, 2 >>
      [] a.op = "set_pressure" ->
            << 6, 3, IF a.style = "Positive" THEN 6 ELSE 7,
               TwosComplement16(LegalPressure(a.pressure_value, a.style)) \div 256,
               TwosComplement16(LegalPressure(a.pressure_value, a.style)) % 256 >>
      [] a.op = "is_pressure_launched" ->
            << 2, 2, IF a.style = "Positive" THEN 0 ELSE 1, 0, 1 >>
      [] a.op = "launch_pressure" ->
            << 5, 1, IF a.style = "Positive" THEN 0 ELSE 1,
               IF a.state = "ON" THEN 255 ELSE 0, 0 >>

C2_RequestLayout ==
    /\ \A c \in Callers :
          Active(c) =>
              /\ Len(request[c]) = 12
              /\ request[c] = << 0, 0, 0, 0, 0, 6, 1 >> \o ExpectedPdu(args[c])
    /\ \A i \in 1..Len(wire) : wire[i].bytes = request[wire[i].from]

C2_Witness ==
    /\ pc[1] = "sent"
    /\ args[1] = LaunchArgs("ON", "Negative")
    /\ wire = << [bytes |-> << 0, 0, 0, 0, 0, 6, 1, 5, 1, 1, 255, 0 >>, from |-> 1] >>

\* C3: unsigned_to_signed_16bit is the two's-complement reading of a 16-bit
\* value: get_pressure returns v for a register[0] of v <= 0x7FFF and
\* v - 0x10000 for v >= 0x8000, always within -32768..32767 and never an
\* error; a register[0] of 0xFFCE gives -50.
C3_SignedReading ==
    \A c \in Callers :
        (Done(c) /\ args[c].op = "get_pressure") =>
            LET v == response[c][10] * 256 + response[c][11]
            IN  /\ v \in 0..65535
                /\ result[c].kind = "return"
                /\ result[c].type = "int"
                /\ v <= 32767 => result[c].value = v
                /\ v >= 32768 => result[c].value = v - 65536
                /\ result[c].value \in -32768..32767
                /\ v = 65486 => result[c].value = -50

C3_Witness ==
    /\ Done(1)
    /\ args[1].op = "get_pressure"
    /\ response[1] = << 0, 0, 0, 0, 0, 7, 1, 3, 4, 255, 206, 0, 0 >>
    /\ result[1] = [kind |-> "return", type |-> "int", value |-> -50, carries |-> {}]

\* C4: a call writes to the transport exactly once and then reads from it
\* exactly once, whatever comes back: never a read before the write, never a
\* second write or read, no retry after a failure.
C4_OneWriteOneRead ==
    \A c \in Callers :
        /\ pc[c] = "idle" => log[c] = <<>>
        /\ pc[c] = "sent" => log[c] = << "send" >>
        /\ pc[c] = "done" => log[c] = << "send", "recv" >>
        /\ Len(wire) + Len(inbox) <= 1
        /\ pc[c] = "done" => (wire = <<>> /\ inbox = <<>>)

C4_Witness ==
    /\ Done(1)
    /\ response[1] = <<>>
    /\ result[1].kind = "raise"
    /\ log[1] = << "send", "recv" >>
    /\ wire = <<>>

\* An exception response to the request of caller c: function code of the
\* request with the high bit set, then the exception code.
ExceptionAnswer(c) ==
    /\ Len(response[c]) = 9
    /\ response[c][8] = request[c][8] + 128

\* C5: on a Modbus exception response the operation fails with an error that
\* carries the exception code of the response, returns no value, and the
\* failure is not the one an undecodable response gives.
C5_ExceptionSurfaced ==
    \A c \in Callers :
        (Done(c) /\ ExceptionAnswer(c)) =>
            /\ result[c].kind = "raise"
            /\ response[c][9] \in result[c].carries
            /\ result[c] # ResultOf(args[c], NoneMessage)

C7_SerializedOwnResponse ==
    \A c \in Callers :
        Done(c) =>
            /\ ~overlapped[c] => got[c] = {c}
            /\ SubSeq(response[c], 1, 2) = SubSeq(request[c], 1, 2)
            /\ SubSeq(request[c], 1, 2) = << 0, 0 >>

\* A call that decoded and returned the response to the other caller's
\* request, beside a later call of that caller that ran alone.
C7_Witness ==
    \E c \in Callers, d \in Callers :
        /\ c # d
        /\ Done(c) /\ Done(d)
        /\ args[c].op # args[d].op
        /\ got[c] = {d}
        /\ result[c].kind = "return"
        /\ ~overlapped[d]
        /\ got[d] = {d}

\* A well-formed response that is no exception response and whose function
\* code is not the one requested.
MismatchedAnswer(c) ==
    /\ Len(response[c]) >= 8
    /\ response[c][8] < 128
    /\ response[c][8] # request[c][8]
    /\ response[c] \in {ResponseFrame(p) : p \in AnyPdus(PduOf(request[c]))}
    /\ response[c][8] \in {1, 2, 3, 4} => response[c][9] = Len(response[c]) - 9

\* C8: a response whose function code is not the requested one makes the
\* operation fail; no value decoded from it is returned.
C8_MismatchFails ==
    \A c \in Callers :
        (Done(c) /\ MismatchedAnswer(c)) => result[c].kind = "raise"

\* Fewer than 7 bytes, or a byte count that is not the number of bytes that
\* follow it.
MalformedAnswer(c) ==
    \/ Len(response[c]) < 7
    \/ /\ Len(response[c]) >= 9
       /\ response[c][8] \in {1, 2, 3, 4}
       /\ response[c][9] # Len(response[c]) - 9

\* C9: a read of fewer than 7 bytes, or of a frame whose declared byte count
\* is not the number of bytes received, makes the operation fail.
C9_MalformedFails ==
    \A c \in Callers :
        (Done(c) /\ MalformedAnswer(c)) => result[c].kind = "raise"

====
